---- MODULE Spec2Model ----
(***************************************************************************)
(* Model of HighSchool_Physic_Assistant_Improve.py: the three solvers      *)
(* (Motion, EquationOfMotion, FreeFall), the calculation workflow          *)
(* PhysicCalcution.run, the CalculationHistory log with its JSON file, and *)
(* the main loop of PhysicsAssistant.run.                                  *)
(*                                                                         *)
(* Numbers are exact rationals [k |-> "q", n, d] in lowest terms (d > 0);  *)
(* the rounding of binary floating point, infinities and NaN are outside   *)
(* the model.  A square root that is not rational is kept symbolically as  *)
(* [k |-> "sqrt", n, d], the root of n/d.  The formula labels are written  *)
(* in ASCII (^2 for the superscript two of the source).                    *)
(***************************************************************************)
EXTENDS Integers, Sequences, FiniteSets, TLC

VARIABLES pc, history, file, calc, clock, loaded, appended

vars == <<pc, history, file, calc, clock, loaded, appended>>

(***************************************************************************)
(* Bounds of the model.                                                    *)
(***************************************************************************)
MaxVal == 3
MaxHistory == 3
MaxClock == 1

(***************************************************************************)
(* Values: None, rationals, symbolic roots, and raised arithmetic faults.  *)
(***************************************************************************)
None == [k |-> "none", n |-> 0, d |-> 1]

Abs(i) == IF i < 0 THEN -i ELSE i

RECURSIVE GCD(_, _)
GCD(a, b) == IF b = 0 THEN a ELSE GCD(b, a % b)

Q(n, d) ==
    LET g == GCD(Abs(n), Abs(d))
        s == IF d < 0 THEN -1 ELSE 1
    IN  [k |-> "q", n |-> (s * n) \div g, d |-> (s * d) \div g]

Num(i) == Q(i, 1)

Fault(type) == [k |-> type, n |-> 0, d |-> 1]

FaultKinds == {"ZeroDivisionError", "MathDomainError", "TypeError"}

IsNone(x) == x = None

IsFault(x) == x.k \in FaultKinds

\* An operand that is no number: a fault already raised goes on unwinding,
\* None (or a root) as an operand of float arithmetic is a TypeError.
Operand(a, b, r) ==
    IF IsFault(a) THEN a
    ELSE IF IsFault(b) THEN b
    ELSE IF a.k # "q" \/ b.k # "q" THEN Fault("TypeError")
    ELSE r

Add(a, b) == Operand(a, b, Q(a.n * b.d + b.n * a.d, a.d * b.d))

Sub(a, b) == Operand(a, b, Q(a.n * b.d - b.n * a.d, a.d * b.d))

Mul(a, b) == Operand(a, b, Q(a.n * b.n, a.d * b.d))

Div(a, b) ==
    Operand(a, b, IF b.n = 0 THEN Fault("ZeroDivisionError")
                  ELSE Q(a.n * b.d, a.d * b.n))

Square(a) == Mul(a, a)

IsZero(x) == x.k = "q" /\ x.n = 0

IsNegative(x) == x.k = "q" /\ x.n < 0

IsSquare(i) == \E r \in 0..i : r * r = i

IntRoot(i) == CHOOSE r \in 0..i : r * r = i

Sqrt(a) ==
    IF IsFault(a) THEN a
    ELSE IF a.k # "q" THEN Fault("TypeError")
    ELSE IF a.n < 0 THEN Fault("MathDomainError")
    ELSE IF IsSquare(a.n) /\ IsSquare(a.d) THEN Q(IntRoot(a.n), IntRoot(a.d))
    ELSE [k |-> "sqrt", n |-> a.n, d |-> a.d]

GRAVITY_FORCE == Q(98, 10)

Half == Q(1, 2)

Two == Num(2)

(***************************************************************************)
(* Exceptions and the outcome of a calculate(): the results dictionary as  *)
(* it stands when calculate returns or raises, and what it raised.         *)
(***************************************************************************)
NoExc == [type |-> "none", msg |-> ""]

ValueError(msg) == [type |-> "ValueError", msg |-> msg]

ExcOfFault(x) ==
    IF x.k = "ZeroDivisionError"
    THEN [type |-> "ZeroDivisionError", msg |-> "float division by zero"]
    ELSE IF x.k = "MathDomainError" THEN ValueError("math domain error")
    ELSE [type |-> "TypeError", msg |-> "unsupported operand type(s)"]

EmptyDict == [key \in {} |-> None]

Put(dict, key, val) == (key :> val) @@ dict

Outcome(results, exc) == [results |-> results, exc |-> exc]

Raise(results, exc) == Outcome(results, exc)

\* self.results[key] = <expression>; self.results["formula"] = label
\* The expression is evaluated first: a fault in it leaves results untouched.
Assign(results, key, val) ==
    IF IsFault(val) THEN Raise(results, ExcOfFault(val))
    ELSE Outcome(Put(results, key, val), NoExc)

AssignWithFormula(results, key, val, label) ==
    IF IsFault(val) THEN Raise(results, ExcOfFault(val))
    ELSE Outcome(Put(Put(results, key, val), "formula", label), NoExc)

\* except ZeroDivisionError: raise ValueError(msg)
ExceptZeroDivision(out, msg) ==
    IF out.exc.type = "ZeroDivisionError"
    THEN Raise(out.results, ValueError(msg))
    ELSE out

NoneCount(vals) == Cardinality({i \in DOMAIN vals : IsNone(vals[i])})

Known(x) == ~IsNone(x)

(***************************************************************************)
(* Motion.calculate (v = s / t)                                            *)
(***************************************************************************)
MotionCountInvalid_Mut(none_count) == none_count > 1

MotionCountInvalid(none_count) == none_count # 1

MotionTimeIsZero_Mut(time) == FALSE

MotionTimeIsZero(time) == IsZero(time)

MotionSpeedIsZero(speed) == IsZero(speed)

MotionSolve(speed, time, distance, results) ==
    IF IsNone(speed)
    THEN IF MotionTimeIsZero(time)
         THEN Raise(results, ValueError("Time cannot be zero!"))
         ELSE Assign(results, "speed", Div(distance, time))
    ELSE IF IsNone(distance)
    THEN Assign(results, "distance", Mul(speed, time))
    ELSE IF IsNone(time)
    THEN IF MotionSpeedIsZero(speed)
         THEN Raise(results, ValueError("Speed cannot be zero!"))
         ELSE Assign(results, "time", Div(distance, speed))
    ELSE Outcome(results, NoExc)

MotionCalculate(inputs, results) ==
    LET speed == inputs["speed"]
        time == inputs["time"]
        distance == inputs["distance"]
        none_count == NoneCount(<<speed, time, distance>>)
    IN  IF MotionCountInvalid(none_count)
        THEN Raise(results, ValueError("You must provide exactly 2 values!"))
        ELSE ExceptZeroDivision(MotionSolve(speed, time, distance, results),
                                "Cannot divide by zero!")

(***************************************************************************)
(* EquationOfMotion.calculate: one if/elif chain over three formulas.  A   *)
(* group of branches that matches none of its conditions yields NoMatch    *)
(* and the chain goes on to the next group.                                *)
(***************************************************************************)
NoMatch == Outcome(EmptyDict, [type |-> "nomatch", msg |-> ""])

LabelVUAT == "v = u + at"

LabelSUTA == "s = ut + 0.5at^2"

LabelVUAS == "v^2 = u^2 + 2as"

FindFinalVelocityVUAT_Mut(u, v, a, t) == Known(u) /\ Known(a) /\ Known(t)

FindFinalVelocityVUAT(u, v, a, t) ==
    IsNone(v) /\ Known(u) /\ Known(a) /\ Known(t)

\* v = u + at: find v, find u, find a, find t
EquationVUAT(u, v, a, t, results) ==
    IF FindFinalVelocityVUAT(u, v, a, t)
    THEN AssignWithFormula(results, "final_velocity", Add(u, Mul(a, t)), LabelVUAT)
    ELSE IF Known(v) /\ IsNone(u) /\ Known(a) /\ Known(t)
    THEN AssignWithFormula(results, "initial_velocity", Sub(v, Mul(a, t)), LabelVUAT)
    ELSE IF Known(v) /\ Known(u) /\ IsNone(a) /\ Known(t)
    THEN IF IsZero(t)
         THEN Raise(results, ValueError("Time cannot be zero!"))
         ELSE AssignWithFormula(results, "acceleration", Div(Sub(v, u), t), LabelVUAT)
    ELSE IF Known(v) /\ Known(u) /\ Known(a) /\ IsNone(t)
    THEN IF IsZero(a)
         THEN Raise(results, ValueError("Acceleration cannot be zero!"))
         ELSE AssignWithFormula(results, "time", Div(Sub(v, u), a), LabelVUAT)
    ELSE NoMatch

\* s = ut + 0.5at^2: find s, find u, find a (there is no find t)
EquationSUTA(s, u, t, a, results) ==
    IF IsNone(s) /\ Known(u) /\ Known(t) /\ Known(a)
    THEN AssignWithFormula(results, "distance",
             Add(Mul(u, t), Mul(Half, Mul(a, Square(t)))), LabelSUTA)
    ELSE IF Known(s) /\ IsNone(u) /\ Known(t) /\ Known(a)
    THEN IF IsZero(t)
         THEN Raise(results, ValueError("Time cannot be zero!"))
         ELSE AssignWithFormula(results, "initial_velocity",
                  Div(Sub(s, Mul(Mul(Half, a), Square(t))), t), LabelSUTA)
    ELSE IF Known(s) /\ Known(u) /\ Known(t) /\ IsNone(a)
    THEN IF IsZero(t)
         THEN Raise(results, ValueError("Time cannot be zero!"))
         ELSE AssignWithFormula(results, "acceleration",
                  Div(Mul(Two, Sub(s, Mul(u, t))), Square(t)), LabelSUTA)
    ELSE NoMatch

NegativeSquare_Mut(x) == FALSE

NegativeSquare(x) == IsNegative(x)

\* v^2 = u^2 + 2as: find v, find u, find a, find s
EquationVUAS(v, u, a, s, results) ==
    IF IsNone(v) /\ Known(u) /\ Known(a) /\ Known(s)
    THEN LET velocity_squared == Add(Square(u), Mul(Mul(Two, a), s))
         IN  IF NegativeSquare(velocity_squared)
             THEN Raise(results,
                      ValueError("Cannot calculate square root of negative number!"))
             ELSE AssignWithFormula(results, "final_velocity",
                      Sqrt(velocity_squared), LabelVUAS)
    ELSE IF Known(v) /\ IsNone(u) /\ Known(a) /\ Known(s)
    THEN LET initial_velocity_squared == Sub(Square(v), Mul(Mul(Two, a), s))
         IN  IF NegativeSquare(initial_velocity_squared)
             THEN Raise(results,
                      ValueError("Cannot calculate square root of negative number!"))
             ELSE AssignWithFormula(results, "initial_velocity",
                      Sqrt(initial_velocity_squared), LabelVUAS)
    ELSE IF Known(v) /\ Known(u) /\ IsNone(a) /\ Known(s)
    THEN IF IsZero(s)
         THEN Raise(results, ValueError("Distance cannot be zero!"))
         ELSE AssignWithFormula(results, "acceleration",
                  Div(Sub(Square(v), Square(u)), Mul(Two, s)), LabelVUAS)
    ELSE IF Known(v) /\ Known(u) /\ Known(a) /\ IsNone(s)
    THEN IF IsZero(a)
         THEN Raise(results, ValueError("Acceleration cannot be zero!"))
         ELSE AssignWithFormula(results, "distance",
                  Div(Sub(Square(v), Square(u)), Mul(Two, a)), LabelVUAS)
    ELSE NoMatch

InsufficientData == ValueError("Insufficient data or invalid combination of inputs!")

\* The chain with the groups in another order, and with the last group left out.
EquationChain_Swapped(u, v, a, t, s, results) ==
    LET g1 == EquationVUAT(u, v, a, t, results)
        g2 == EquationSUTA(s, u, t, a, results)
        g3 == EquationVUAS(v, u, a, s, results)
    IN  IF g2 # NoMatch THEN g2
        ELSE IF g1 # NoMatch THEN g1
        ELSE IF g3 # NoMatch THEN g3
        ELSE Raise(results, InsufficientData)

EquationChain_NoVUAS(u, v, a, t, s, results) ==
    LET g1 == EquationVUAT(u, v, a, t, results)
        g2 == EquationSUTA(s, u, t, a, results)
    IN  IF g1 # NoMatch THEN g1
        ELSE IF g2 # NoMatch THEN g2
        ELSE Raise(results, InsufficientData)

EquationChain(u, v, a, t, s, results) ==
    LET g1 == EquationVUAT(u, v, a, t, results)
        g2 == EquationSUTA(s, u, t, a, results)
        g3 == EquationVUAS(v, u, a, s, results)
    IN  IF g1 # NoMatch THEN g1
        ELSE IF g2 # NoMatch THEN g2
        ELSE IF g3 # NoMatch THEN g3
        ELSE Raise(results, InsufficientData)

EquationOfMotionCalculate(inputs, results) ==
    LET initial_velocity == inputs["initial_velocity"]
        final_velocity == inputs["final_velocity"]
        acceleration == inputs["acceleration"]
        time == inputs["time"]
        distance == inputs["distance"]
    IN  ExceptZeroDivision(
            EquationChain(initial_velocity, final_velocity, acceleration,
                          time, distance, results),
            "Division by zero error!")

(***************************************************************************)
(* FreeFall.calculate                                                      *)
(***************************************************************************)
LabelVGT == "v = gt"

LabelV2GH == "v^2 = 2gh"

LabelHGT == "h = 0.5gt^2"

FreeFallCountInvalid(none_count) == none_count # 1

\* The chain with "find h" of h = 0.5gt^2 tested before "find h" of v^2 = 2gh.
FreeFallChain_HeightFromTimeFirst(final_velocity, height, time, gravity, results) ==
    IF IsNone(final_velocity) /\ Known(time)
    THEN AssignWithFormula(results, "final_velocity", Mul(gravity, time), LabelVGT)
    ELSE IF IsNone(time) /\ Known(final_velocity)
    THEN AssignWithFormula(results, "time", Div(final_velocity, gravity), LabelVGT)
    ELSE IF IsNone(final_velocity) /\ Known(height)
    THEN AssignWithFormula(results, "final_velocity",
             Sqrt(Mul(Mul(Two, gravity), height)), LabelV2GH)
    ELSE IF IsNone(height) /\ Known(time)
    THEN AssignWithFormula(results, "height",
             Mul(Mul(Half, gravity), Square(time)), LabelHGT)
    ELSE IF IsNone(height) /\ Known(final_velocity)
    THEN AssignWithFormula(results, "height",
             Div(Square(final_velocity), Mul(Two, gravity)), LabelV2GH)
    ELSE IF IsNone(time) /\ Known(height)
    THEN AssignWithFormula(results, "time",
             Sqrt(Div(Mul(Two, height), gravity)), LabelHGT)
    ELSE Raise(results, InsufficientData)

\* The chain with the two branches of the height tested before v = gt.
FreeFallChain_HeightBranchesFirst(final_velocity, height, time, gravity, results) ==
    IF IsNone(final_velocity) /\ Known(height)
    THEN AssignWithFormula(results, "final_velocity",
             Sqrt(Mul(Mul(Two, gravity), height)), LabelV2GH)
    ELSE IF IsNone(time) /\ Known(height)
    THEN AssignWithFormula(results, "time",
             Sqrt(Div(Mul(Two, height), gravity)), LabelHGT)
    ELSE IF IsNone(final_velocity) /\ Known(time)
    THEN AssignWithFormula(results, "final_velocity", Mul(gravity, time), LabelVGT)
    ELSE IF IsNone(time) /\ Known(final_velocity)
    THEN AssignWithFormula(results, "time", Div(final_velocity, gravity), LabelVGT)
    ELSE IF IsNone(height) /\ Known(final_velocity)
    THEN AssignWithFormula(results, "height",
             Div(Square(final_velocity), Mul(Two, gravity)), LabelV2GH)
    ELSE IF IsNone(height) /\ Known(time)
    THEN AssignWithFormula(results, "height",
             Mul(Mul(Half, gravity), Square(time)), LabelHGT)
    ELSE Raise(results, InsufficientData)

FreeFallChain(final_velocity, height, time, gravity, results) ==
    IF IsNone(final_velocity) /\ Known(time)
    THEN AssignWithFormula(results, "final_velocity", Mul(gravity, time), LabelVGT)
    ELSE IF IsNone(time) /\ Known(final_velocity)
    THEN AssignWithFormula(results, "time", Div(final_velocity, gravity), LabelVGT)
    ELSE IF IsNone(final_velocity) /\ Known(height)
    THEN AssignWithFormula(results, "final_velocity",
             Sqrt(Mul(Mul(Two, gravity), height)), LabelV2GH)
    ELSE IF IsNone(height) /\ Known(final_velocity)
    THEN AssignWithFormula(results, "height",
             Div(Square(final_velocity), Mul(Two, gravity)), LabelV2GH)
    ELSE IF IsNone(height) /\ Known(time)
    THEN AssignWithFormula(results, "height",
             Mul(Mul(Half, gravity), Square(time)), LabelHGT)
    ELSE IF IsNone(time) /\ Known(height)
    THEN AssignWithFormula(results, "time",
             Sqrt(Div(Mul(Two, height), gravity)), LabelHGT)
    ELSE Raise(results, InsufficientData)

FreeFallCalculate(inputs, results) ==
    LET final_velocity == inputs["final_velocity"]
        height == inputs["height"]
        time == inputs["time"]
        gravity == GRAVITY_FORCE
        none_count == NoneCount(<<final_velocity, height, time>>)
    IN  IF FreeFallCountInvalid(none_count)
        THEN Raise(results, ValueError("You must provide exactly 2 values!"))
        ELSE ExceptZeroDivision(
                 FreeFallChain(final_velocity, height, time, gravity, results),
                 "Division by zero error!")

(***************************************************************************)
(* CalculationHistory: the in-memory log and the JSON file.                *)
(* A file is [kind, items]: "missing", "corrupt" (not JSON), or "json"     *)
(* with the array of encoded entries.  JSON has null for None; a number's  *)
(* text reads back as the same number.  A failing write (IOError) is not   *)
(* modelled: every save replaces the file.                                 *)
(***************************************************************************)
JsonNull == [k |-> "null", n |-> 0, d |-> 1]

JsonValue(key, val) ==
    IF key = "formula" THEN val
    ELSE IF IsNone(val) THEN JsonNull ELSE val

PyValue(key, val) ==
    IF key = "formula" THEN val
    ELSE IF val = JsonNull THEN None ELSE val

JsonEntry(e) ==
    [timestamp |-> e.timestamp, topic |-> e.topic,
     inputs |-> [key \in DOMAIN e.inputs |-> JsonValue(key, e.inputs[key])],
     results |-> [key \in DOMAIN e.results |-> JsonValue(key, e.results[key])]]

PyEntry(j) ==
    [timestamp |-> j.timestamp, topic |-> j.topic,
     inputs |-> [key \in DOMAIN j.inputs |-> PyValue(key, j.inputs[key])],
     results |-> [key \in DOMAIN j.results |-> PyValue(key, j.results[key])]]

MissingFile == [kind |-> "missing", items |-> <<>>]

CorruptFile == [kind |-> "corrupt", items |-> <<>>]

JsonDump(log) == [kind |-> "json", items |-> [i \in 1..Len(log) |-> JsonEntry(log[i])]]

JsonLoad(f) == [i \in 1..Len(f.items) |-> PyEntry(f.items[i])]

\* save_history: the file written from a log
SaveHistory(log) == JsonDump(log)

\* load_history, called by __init__ on the empty list
LoadHistory(f) ==
    IF f.kind = "missing" THEN <<>>
    ELSE IF f.kind = "corrupt" THEN <<>>
    ELSE JsonLoad(f)

AddCalculation_Prepend(log, now, topic, inputs, results) ==
    <<[timestamp |-> now, topic |-> topic, inputs |-> inputs, results |-> results]>> \o log

AddCalculation(log, now, topic, inputs, results) ==
    Append(log, [timestamp |-> now, topic |-> topic,
                 inputs |-> inputs, results |-> results])

\* __exit__(exc_type, ...): the file after leaving the context
ContextExit_SaveOnCleanExitOnly(log, f, exc) == IF exc THEN f ELSE SaveHistory(log)

ContextExit(log, f, exc) == SaveHistory(log)

\* clear_history: the log and the file afterwards
ClearHistory_NoSave(log, f) == [history |-> <<>>, file |-> f]

ClearHistory(log, f) == [history |-> <<>>, file |-> SaveHistory(<<>>)]

(***************************************************************************)
(* PhysicCalcution.run: get_inputs, calculate, display_results,            *)
(* add_calculation, all inside try / except Exception.                     *)
(***************************************************************************)
Classes == {"Motion", "EquationOfMotion", "FreeFall"}

Calculate(cls, inputs, results) ==
    IF cls = "Motion" THEN MotionCalculate(inputs, results)
    ELSE IF cls = "EquationOfMotion" THEN EquationOfMotionCalculate(inputs, results)
    ELSE FreeFallCalculate(inputs, results)

EOFError == [type |-> "EOFError", msg |-> "EOF when reading a line"]

\* The subclasses of Exception among the exceptions of the model: all of them.
CaughtByRun(exc) ==
    exc.type \in {"ValueError", "ZeroDivisionError", "TypeError", "EOFError"}

Escaped(exc) == IF exc = NoExc \/ CaughtByRun(exc) THEN NoExc ELSE exc

\* The calculator and the log after run(): typed is what the user enters at
\* the prompts, eof says that standard input ends during them.  escaped is
\* the exception that leaves run, NoExc when run returns.
RunWorkflow_LogAlways(cls, typed, eof, log, now) ==
    LET out == Calculate(cls, typed, EmptyDict)
    IN  [calc |-> [cls |-> cls, inputs |-> typed, results |-> out.results,
                   exc |-> out.exc, escaped |-> Escaped(out.exc)],
         history |-> AddCalculation(log, now, cls, typed, out.results)]

RunWorkflow(cls, typed, eof, log, now) ==
    IF eof
    THEN [calc |-> [cls |-> cls, inputs |-> EmptyDict, results |-> EmptyDict,
                    exc |-> EOFError, escaped |-> Escaped(EOFError)],
          history |-> log]
    ELSE LET out == Calculate(cls, typed, EmptyDict)
         IN  [calc |-> [cls |-> cls, inputs |-> typed, results |-> out.results,
                        exc |-> out.exc, escaped |-> Escaped(out.exc)],
              history |-> IF out.exc = NoExc
                          THEN AddCalculation(log, now, cls, typed, out.results)
                          ELSE log]

(***************************************************************************)
(* Input Sets                                                              *)
(***************************************************************************)
Values == {None} \cup {Num(i) : i \in (0..MaxVal) \cup {-10, 5}}

Quantities(cls) ==
    IF cls = "Motion" THEN {"speed", "time", "distance"}
    ELSE IF cls = "EquationOfMotion"
    THEN {"initial_velocity", "final_velocity", "acceleration", "time", "distance"}
    ELSE {"final_velocity", "height", "time"}

InputSets(cls) == [Quantities(cls) -> Values]

\* What the session of the main loop types at the prompts: for each family an
\* Input Set that solves and Input Sets that fail.
TypedAtMenu(cls) ==
    IF cls = "Motion"
    THEN {[speed |-> None, time |-> Num(2), distance |-> Num(3)],
          [speed |-> None, time |-> Num(0), distance |-> Num(3)],
          [speed |-> None, time |-> None, distance |-> None]}
    ELSE IF cls = "EquationOfMotion"
    THEN {[initial_velocity |-> Num(0), final_velocity |-> None,
           acceleration |-> Num(2), time |-> Num(3), distance |-> None],
          [initial_velocity |-> Num(3), final_velocity |-> None,
           acceleration |-> Num(-10), time |-> None, distance |-> Num(5)]}
    ELSE {[final_velocity |-> None, height |-> Num(5), time |-> Num(2)],
          [final_velocity |-> None, height |-> None, time |-> Num(2)]}

\* An entry written by an earlier session.
PriorEntry ==
    LET inputs == [speed |-> None, time |-> Num(2), distance |-> Num(4)]
    IN  [timestamp |-> 0, topic |-> "Motion", inputs |-> inputs,
         results |-> MotionCalculate(inputs, EmptyDict).results]

PriorLogs == {<<>>, <<PriorEntry>>}

NoCalc == [cls |-> "none", inputs |-> EmptyDict, results |-> EmptyDict,
           exc |-> NoExc, escaped |-> NoExc]

(***************************************************************************)
(* The program: PhysicsAssistant.run.  loaded and appended are history     *)
(* variables: the log as last loaded (or cleared), and the entries of the  *)
(* calculations that succeeded since, in the order they were made.         *)
(***************************************************************************)
Init ==
    /\ pc = "init"
    /\ history = <<>>
    /\ file \in {MissingFile, CorruptFile} \cup {JsonDump(log) : log \in PriorLogs}
    /\ calc = NoCalc
    /\ clock = 0
    /\ loaded = <<>>
    /\ appended = <<>>

\* with CalculationHistory() as history: __init__ loads the file.  A process
\* started after an earlier one has ended enters here again.
EnterContext ==
    /\ pc \in {"init", "exited", "crashed"}
    /\ history' = LoadHistory(file)
    /\ loaded' = LoadHistory(file)
    /\ appended' = <<>>
    /\ calc' = NoCalc
    /\ pc' = "menu"
    /\ UNCHANGED <<file, clock>>

\* choice 1: show_motion_menu builds a calculator and runs it.  When standard
\* input has ended, the prompts of the loop and of its handler raise EOFError
\* too, which leaves the with block through __exit__.
MotionCalculations ==
    /\ pc = "menu"
    /\ Len(history) < MaxHistory
    /\ \E cls \in Classes, eof \in BOOLEAN :
         \E typed \in TypedAtMenu(cls) :
            LET r == RunWorkflow(cls, typed, eof, history, clock)
                crash == eof \/ r.calc.escaped # NoExc
            IN  /\ calc' = r.calc
                /\ history' = r.history
                /\ appended' = IF r.calc.exc = NoExc
                               THEN Append(appended,
                                        [timestamp |-> clock, topic |-> cls,
                                         inputs |-> typed, results |-> r.calc.results])
                               ELSE appended
                /\ file' = IF crash THEN ContextExit(r.history, file, TRUE) ELSE file
                /\ pc' = IF crash THEN "crashed" ELSE "menu"
    /\ UNCHANGED <<clock, loaded>>

\* choice 3, confirmed with "yes"
ClearHistoryChoice ==
    /\ pc = "menu"
    /\ LET c == ClearHistory(history, file)
       IN  /\ history' = c.history
           /\ file' = c.file
    /\ loaded' = <<>>
    /\ appended' = <<>>
    /\ UNCHANGED <<pc, calc, clock>>

\* choice 0: break, then __exit__(None, None, None)
ExitChoice ==
    /\ pc = "menu"
    /\ file' = ContextExit(history, file, FALSE)
    /\ pc' = "exited"
    /\ UNCHANGED <<history, calc, clock, loaded, appended>>

\* KeyboardInterrupt, or end of input, at the menu prompt: __exit__ with the
\* exception, which it lets through (return False)
Interrupt ==
    /\ pc = "menu"
    /\ file' = ContextExit(history, file, TRUE)
    /\ pc' = "crashed"
    /\ UNCHANGED <<history, calc, clock, loaded, appended>>

\* datetime.now() moves on
Tick ==
    /\ clock < MaxClock
    /\ clock' = clock + 1
    /\ UNCHANGED <<pc, history, file, calc, loaded, appended>>

Next ==
    \/ EnterContext
    \/ MotionCalculations
    \/ ClearHistoryChoice
    \/ ExitChoice
    \/ Interrupt
    \/ Tick

Spec == Init /\ [][Next]_vars

(***************************************************************************)
(* One run of a calculator on any Input Set: the calculator stands built   *)
(* (calc.inputs holds what the user is about to type) over a loaded log.   *)
(***************************************************************************)
InitCalc ==
    /\ pc = "prompt"
    /\ history \in PriorLogs
    /\ file = JsonDump(history)
    /\ \E cls \in Classes :
         \E typed \in InputSets(cls) :
            calc = [cls |-> cls, inputs |-> typed, results |-> EmptyDict,
                    exc |-> NoExc, escaped |-> NoExc]
    /\ clock = 0
    /\ loaded = history
    /\ appended = <<>>

Run(cls) ==
    /\ pc = "prompt"
    /\ calc.cls = cls
    /\ \E eof \in BOOLEAN :
         LET r == RunWorkflow(cls, calc.inputs, eof, history, clock)
         IN  /\ calc' = r.calc
             /\ history' = r.history
             /\ appended' = IF r.calc.exc = NoExc
                            THEN Append(appended,
                                     [timestamp |-> clock, topic |-> cls,
                                      inputs |-> calc.inputs,
                                      results |-> r.calc.results])
                            ELSE appended
    /\ pc' = "ran"
    /\ UNCHANGED <<file, clock, loaded>>

RunMotion == Run("Motion")

RunEquationOfMotion == Run("EquationOfMotion")

RunFreeFall == Run("FreeFall")

NextCalc ==
    \/ RunMotion
    \/ RunEquationOfMotion
    \/ RunFreeFall

SpecCalc == InitCalc /\ [][NextCalc]_vars

(***************************************************************************)
(* Vocabulary of the properties                                            *)
(***************************************************************************)
Absent(inputs) == {key \in DOMAIN inputs : IsNone(inputs[key])}

\* A calculator of class cls has run on the Input Set it was given.
Ran(cls) == pc = "ran" /\ calc.cls = cls /\ calc.exc # EOFError

ExactlyTwoValues == ValueError("You must provide exactly 2 values!")

NegativeRoot == ValueError("Cannot calculate square root of negative number!")

FourVUAT == {"initial_velocity", "final_velocity", "acceleration", "time"}

FourSUTA == {"distance", "initial_velocity", "time", "acceleration"}

FourVUAS == {"final_velocity", "initial_velocity", "acceleration", "distance"}

OneAbsent(inputs, four) == Cardinality(Absent(inputs) \cap four) = 1

\* The label of the first formula, in the order of the specification, whose four
\* quantities have exactly one absent.
FirstOneAbsent(inputs) ==
    IF OneAbsent(inputs, FourVUAT) THEN LabelVUAT
    ELSE IF OneAbsent(inputs, FourSUTA) THEN LabelSUTA
    ELSE IF OneAbsent(inputs, FourVUAS) THEN LabelVUAS
    ELSE "none"

\* The same, where s = ut + 0.5at^2 counts only when its absent quantity is not time.
FirstSolvable(inputs) ==
    IF OneAbsent(inputs, FourVUAT) THEN LabelVUAT
    ELSE IF OneAbsent(inputs, FourSUTA) /\ Known(inputs["time"]) THEN LabelSUTA
    ELSE IF OneAbsent(inputs, FourVUAS) THEN LabelVUAS
    ELSE "none"

\* The integer an Input Set holds for a quantity (Input Sets hold integers).
Whole(inputs, key) == inputs[key].n

(***************************************************************************)
(* C1: Motion.calculate and FreeFall.calculate on an Input Set with 0, 2   *)
(* or 3 absent quantities fail with the validation error and write nothing *)
(* into results.                                                           *)
(***************************************************************************)
C1_CountValidation ==
    \A cls \in {"Motion", "FreeFall"} :
        (Ran(cls) /\ Cardinality(Absent(calc.inputs)) \in {0, 2, 3})
            => (calc.exc = ExactlyTwoValues /\ calc.results = EmptyDict)

C1_Witness ==
    /\ Ran("Motion")
    /\ Absent(calc.inputs) = {}
    /\ calc.exc = ExactlyTwoValues
    /\ calc.results = EmptyDict

(***************************************************************************)
(* C2, as claimed: the formula label of an EquationOfMotion result is that *)
(* of the first formula, in the order v = u + at, s = ut + 0.5at^2,        *)
(* v^2 = u^2 + 2as, whose four quantities have exactly one absent.         *)
(***************************************************************************)
C2_Original ==
    (Ran("EquationOfMotion") /\ calc.exc = NoExc)
        => calc.results["formula"] = FirstOneAbsent(calc.inputs)

(***************************************************************************)
(* C2, amended: the label is that of the first formula in that order whose *)
(* four quantities have exactly one absent, where s = ut + 0.5at^2 counts  *)
(* only when its absent quantity is distance, initial_velocity or          *)
(* acceleration (it has no branch that solves time).                       *)
(***************************************************************************)
C2_FirstSolvableFormula ==
    (Ran("EquationOfMotion") /\ calc.exc = NoExc)
        => calc.results["formula"] = FirstSolvable(calc.inputs)

C2_Witness ==
    /\ Ran("EquationOfMotion")
    /\ calc.exc = NoExc
    /\ Absent(calc.inputs) = {"final_velocity", "time"}
    /\ calc.results["formula"] = LabelVUAS

(***************************************************************************)
(* C3, as claimed: FreeFall with height absent and time and final_velocity *)
(* known gives height = 0.5 * 9.8 * time^2 with the label h = 0.5gt^2.     *)
(***************************************************************************)
C3_Original ==
    (Ran("FreeFall") /\ Absent(calc.inputs) = {"height"})
        => /\ calc.exc = NoExc
           /\ calc.results["formula"] = LabelHGT
           /\ calc.results["height"] = Q(49 * Whole(calc.inputs, "time")
                                            * Whole(calc.inputs, "time"), 10)

(***************************************************************************)
(* C3, amended: FreeFall with height absent and time and final_velocity    *)
(* known gives height = final_velocity^2 / (2 * 9.8) with the label        *)
(* v^2 = 2gh, for every value of the known time.                           *)
(***************************************************************************)
C3_HeightFromVelocity ==
    (Ran("FreeFall") /\ Absent(calc.inputs) = {"height"})
        => /\ calc.exc = NoExc
           /\ calc.results["formula"] = LabelV2GH
           /\ calc.results["height"] = Q(5 * Whole(calc.inputs, "final_velocity")
                                           * Whole(calc.inputs, "final_velocity"), 98)

C3_Witness ==
    /\ Ran("FreeFall")
    /\ calc.inputs = [final_velocity |-> Num(3), height |-> None, time |-> Num(2)]
    /\ calc.results = [height |-> Q(45, 98), formula |-> LabelV2GH]

C5_RunLogsOnSuccessOnly ==
    pc = "ran" =>
        /\ calc.escaped = NoExc
        /\ calc.exc # NoExc => history = loaded
        /\ calc.exc = NoExc =>
              /\ calc.cls \in Classes
              /\ calc.results = Calculate(calc.cls, calc.inputs, EmptyDict).results
              /\ history = loaded \o <<[timestamp |-> clock, topic |-> calc.cls,
                                        inputs |-> calc.inputs,
                                        results |-> calc.results]>>

C5_Witness ==
    /\ pc = "ran"
    /\ calc.cls = "EquationOfMotion"
    /\ calc.exc = NoExc
    /\ Len(loaded) = 1
    /\ Len(history) = 2
    /\ history[2].topic = "EquationOfMotion"

C7_NegativeRootGuard ==
    LET in == calc.inputs
        u == Whole(in, "initial_velocity")
        v == Whole(in, "final_velocity")
        a == Whole(in, "acceleration")
        s == Whole(in, "distance")
    IN  Ran("EquationOfMotion") =>
          /\ (Absent(in) = {"final_velocity", "time"} /\ u * u + 2 * a * s < 0)
                => (calc.exc = NegativeRoot /\ calc.results = EmptyDict)
          /\ (Absent(in) = {"initial_velocity", "time"} /\ v * v - 2 * a * s < 0)
                => (calc.exc = NegativeRoot /\ calc.results = EmptyDict)

C7_Witness ==
    /\ Ran("EquationOfMotion")
    /\ calc.inputs = [initial_velocity |-> Num(3), final_velocity |-> None,
                      acceleration |-> Num(-10), time |-> None, distance |-> Num(5)]
    /\ calc.exc = NegativeRoot
    /\ calc.results = EmptyDict

(***************************************************************************)
(* C8: Motion with exactly one quantity absent: solving speed with         *)
(* time = 0 and solving time with speed = 0 fail with their domain errors  *)
(* and store nothing, and no division by zero leaves calculate as a        *)
(* ZeroDivisionError.                                                      *)
(***************************************************************************)
C8_MotionZeroGuards ==
    (Ran("Motion") /\ Cardinality(Absent(calc.inputs)) = 1) =>
        /\ (Absent(calc.inputs) = {"speed"} /\ IsZero(calc.inputs["time"]))
              => (calc.exc = ValueError("Time cannot be zero!")
                  /\ calc.results = EmptyDict)
        /\ (Absent(calc.inputs) = {"time"} /\ IsZero(calc.inputs["speed"]))
              => (calc.exc = ValueError("Speed cannot be zero!")
                  /\ calc.results = EmptyDict)
        /\ calc.exc.type \in {"none", "ValueError"}
        /\ calc.exc.msg # "Cannot divide by zero!"

C8_Witness ==
    /\ Ran("Motion")
    /\ Absent(calc.inputs) = {"speed"}
    /\ IsZero(calc.inputs["time"])
    /\ calc.exc = ValueError("Time cannot be zero!")
    /\ calc.results = EmptyDict

(***************************************************************************)
(* C9, as claimed: EquationOfMotion.calculate on an Input Set with zero or *)
(* with two or more absent quantities fails with the validation error and  *)
(* yields no computed value.                                               *)
(***************************************************************************)
C9_Original ==
    (Ran("EquationOfMotion") /\ Cardinality(Absent(calc.inputs)) # 1)
        => (calc.exc = InsufficientData /\ calc.results = EmptyDict)

(***************************************************************************)
(* C9, amended: a Result is produced only when one or two of the five      *)
(* quantities are absent: an Input Set with zero or with three or more     *)
(* absent quantities fails with the validation error and yields no         *)
(* computed value.                                                         *)
(***************************************************************************)
C9_OneOrTwoAbsent ==
    Ran("EquationOfMotion") =>
        /\ Cardinality(Absent(calc.inputs)) \notin {1, 2}
              => (calc.exc = InsufficientData /\ calc.results = EmptyDict)
        /\ calc.results # EmptyDict => Cardinality(Absent(calc.inputs)) \in {1, 2}

C9_Witness ==
    /\ Ran("EquationOfMotion")
    /\ Absent(calc.inputs) = {}
    /\ calc.exc = InsufficientData
    /\ calc.results = EmptyDict

(***************************************************************************)
(* C10: EquationOfMotion.calculate raises the "insufficient or invalid     *)
(* combination" error if and only if none of the three formulas has        *)
(* exactly one absent quantity among its own four; a pattern in which      *)
(* some formula has exactly one absent reaches a solving branch.           *)
(***************************************************************************)
C10_FallbackIffNoFormula ==
    Ran("EquationOfMotion") =>
        (calc.exc = InsufficientData <=> FirstOneAbsent(calc.inputs) = "none")

C10_Witness ==
    /\ Ran("EquationOfMotion")
    /\ Absent(calc.inputs) = {"final_velocity", "time"}
    /\ OneAbsent(calc.inputs, FourSUTA)
    /\ calc.exc # InsufficientData

(***************************************************************************)
(* C11: FreeFall.calculate on an Input Set with exactly one absent         *)
(* quantity yields a Result and no error, whatever the two known values    *)
(* (a negative height included): the absent quantity is solved by v = gt   *)
(* (final_velocity, time) or by v^2 = 2gh from the velocity (height), so   *)
(* neither square-root branch (final_velocity from height, time from       *)
(* height) nor the "insufficient data" fallback is taken.                  *)
(***************************************************************************)
C11_FreeFallAlwaysSolves ==
    (Ran("FreeFall") /\ Cardinality(Absent(calc.inputs)) = 1) =>
        /\ calc.exc = NoExc
        /\ DOMAIN calc.results = Absent(calc.inputs) \cup {"formula"}
        /\ \A key \in Absent(calc.inputs) : calc.results[key].k = "q"
        /\ ~("final_velocity" \in DOMAIN calc.results
             /\ calc.results["formula"] = LabelV2GH)
        /\ ~("time" \in DOMAIN calc.results
             /\ calc.results["formula"] = LabelHGT)

C11_Witness ==
    /\ Ran("FreeFall")
    /\ Absent(calc.inputs) = {"time"}
    /\ IsNegative(calc.inputs["height"])
    /\ calc.exc = NoExc
    /\ calc.results["formula"] = LabelVGT

====
